---- MODULE Spec2Model ----
(***************************************************************************)
(* WebSocket monitoring helpers (WebSocketHelpers): one tracker observing  *)
(* the WebSocket connections a page opens, the frames they carry and their *)
(* closure, together with the waitForConnection call of the test body and  *)
(* the verification queries computed from the tracker.                     *)
(***************************************************************************)
EXTENDS Integers, Sequences, FiniteSets, TLC

(* ------------------------------ bounds -------------------------------- *)
MaxTime == 2
MaxFrames == 1
MaxTimeout == 1

(* -------------------------- program constants ------------------------- *)
WS_LATENCY_THRESHOLD_MS == 300

(* The WebSocket connections the page opens.                              *)
Conns == {1, 2}
NullConn == 0
NullUrl == <<>>
Undefined == <<>>

(* URLs are sequences of symbols. The page opens a terminal socket and    *)
(* either a file-system socket or a second terminal socket.               *)
UrlFs == <<"ws", "fs">>
UrlTerminal == <<"ws", "terminal">>
TerminalAndFs == [c \in Conns |-> IF c = 2 THEN UrlFs ELSE UrlTerminal]
TwoTerminals == [c \in Conns |-> UrlTerminal]

(* The urlFilter argument: absent, a string, or a RegExp (literal pattern, *)
(* with or without the global flag).                                      *)
NoFilter == [kind |-> "none", text |-> <<>>, global |-> FALSE]
StringFilter(s) == [kind |-> "string", text |-> s, global |-> FALSE]
RegExpFilter(p, g) == [kind |-> "regex", text |-> p, global |-> g]

(* The setups explored: the filter given to setupWebSocketMonitoring and  *)
(* the sockets the page opens afterwards.                                 *)
Setups ==
  { [filter |-> NoFilter, urls |-> TerminalAndFs],
    [filter |-> StringFilter(<<"terminal">>), urls |-> TerminalAndFs],
    [filter |-> StringFilter(<<"terminal">>), urls |-> TwoTerminals],
    [filter |-> RegExpFilter(<<"terminal">>, FALSE), urls |-> TerminalAndFs],
    [filter |-> RegExpFilter(<<"terminal">>, TRUE), urls |-> TerminalAndFs],
    [filter |-> RegExpFilter(<<"terminal">>, TRUE), urls |-> TwoTerminals] }

(* Raw frame payloads as the transport delivers them: text or a Buffer.    *)
StringPayload(s) == [kind |-> "string", text |-> s, bytes |-> <<>>]
BufferPayload(b) == [kind |-> "buffer", text |-> "", bytes |-> b]
SentPayloads == { StringPayload("whoami") }
ReceivedPayloads ==
  { StringPayload(""), StringPayload("{}"), BufferPayload(<<111, 107>>) }

Min(S) == CHOOSE x \in S : \A y \in S : x <= y

(* Buffer.toString("utf8") on the byte strings of the payloads.           *)
Utf8Decode(b) ==
  IF b = <<>> THEN ""
  ELSE IF b = <<123, 125>> THEN "{}"
  ELSE IF b = <<111, 107>> THEN "ok"
  ELSE "?"

payloadToString(payload) ==
  IF payload.kind = "string" THEN payload.text
  ELSE IF payload.kind = "buffer" THEN Utf8Decode(payload.bytes)
  ELSE "[object]"

(* String.prototype.includes                                               *)
includes(s, sub) ==
  \E i \in 0..(Len(s) - Len(sub)) : SubSeq(s, i + 1, i + Len(sub)) = sub

(* RegExp.prototype.test: a global RegExp starts the search at lastIndex,  *)
(* leaves lastIndex after the match on success and resets it on failure.   *)
RegExpTest(re, s, li) ==
  LET start == IF re.global THEN li ELSE 0
      hits == { i \in start..(Len(s) - Len(re.text)) :
                  SubSeq(s, i + 1, i + Len(re.text)) = re.text }
  IN IF hits = {}
       THEN [matches |-> FALSE, lastIndex |-> IF re.global THEN 0 ELSE li]
       ELSE [matches |-> TRUE,
             lastIndex |-> IF re.global THEN Min(hits) + Len(re.text) ELSE li]

(* if (urlFilter): absent and the empty string are falsy.                  *)
Truthy(f) == f.kind = "regex" \/ (f.kind = "string" /\ f.text # <<>>)

(* ListenerFilter without the early return on a non-matching URL.          *)
ListenerFilter_NoSkip(f, li, wsUrl) ==
  [matches |-> TRUE, lastIndex |-> li]

(* The listener's filter decision.                                         *)
ListenerFilter(f, li, wsUrl) ==
  IF Truthy(f)
    THEN IF f.kind = "string"
           THEN [matches |-> includes(wsUrl, f.text), lastIndex |-> li]
           ELSE RegExpTest(f, wsUrl, li)
    ELSE [matches |-> TRUE, lastIndex |-> li]

(* The already-bound fast path's filter decision.                          *)
FastPathFilter(f, li, trackerUrl) ==
  IF Truthy(f)
    THEN IF f.kind = "string"
           THEN [matches |-> includes(trackerUrl, f.text), lastIndex |-> li]
           ELSE RegExpTest(f, trackerUrl, li)
    ELSE [matches |-> TRUE, lastIndex |-> li]

(* PredicateFilter that accepts whatever WebSocket opens.                  *)
PredicateFilter_AcceptAll(f, li, wsUrl) ==
  [matches |-> TRUE, lastIndex |-> li]

(* The waitForEvent predicate's filter decision.                           *)
PredicateFilter(f, li, wsUrl) ==
  IF Truthy(f)
    THEN IF f.kind = "string"
           THEN [matches |-> includes(wsUrl, f.text), lastIndex |-> li]
           ELSE RegExpTest(f, wsUrl, li)
    ELSE [matches |-> TRUE, lastIndex |-> li]

createTracker ==
  [ connection                |-> NullConn,
    sentFrames                |-> <<>>,
    receivedFrames            |-> <<>>,
    connectionStartTime       |-> 0,
    connectionEstablishedTime |-> 0,
    connectionClosedTime      |-> 0,
    url                       |-> NullUrl,
    isClosed                  |-> FALSE ]

VARIABLES
  urls,       \* the URL of each connection
  tracker,    \* the WebSocketTracker
  urlFilter,  \* the filter given to setupWebSocketMonitoring
  lastIndex,  \* lastIndex of the RegExp filter
  attached,   \* connections carrying this tracker's frame/close handlers
  now,        \* Date.now()
  order,      \* connections the page has opened, in opening order
  closed,     \* connections that have closed
  wire,       \* raw payloads each connection has carried, per direction
  pc,         \* position of the waitForConnection call
  deadline,   \* when the pending waitForEvent times out
  ws,         \* the connection waitForEvent resolved with
  ret,        \* the connection waitForConnection returned
  frameBudget,           \* how many frames the sockets carry in this run
  rpc,                   \* position of the test body in its latency or closure step
  tcInitialFrameCount,   \* the baseline the test body took before the send
  baselineReceived,      \* receivedFrames.length when the baseline was taken
  tcSendTime,            \* Date.now() just before the command was sent
  initialReceivedCount,  \* waitForWebSocketResponse's local
  pollDeadline,          \* when the pending expect.poll gives up
  tcResponseTime,        \* what waitForResponse returned
  result,                \* what the call made in the last step was and returned
  cfPage,                \* what the page shows of a Cloudflare challenge
  cfpc,                  \* position of the waitForCloudflareChallenge call
  startTime,             \* waitForCloudflareChallenge's local
  maxWaitTime,           \* waitForCloudflareChallenge's argument
  wakeTime,              \* when the pending waitForTimeout resolves
  stillChallenging,      \* what the call's last isCloudflareChallenge returned
  cfReturned,            \* what waitForCloudflareChallenge returned
  testUsersStorage,      \* the in-memory array of saved test users
  second                 \* the state of a second setupWebSocketMonitoring call

callVars ==
  << frameBudget, rpc, tcInitialFrameCount, baselineReceived, tcSendTime,
     initialReceivedCount, pollDeadline, tcResponseTime >>

cfVars ==
  << cfPage, cfpc, startTime, maxWaitTime, wakeTime, stillChallenging,
     cfReturned >>

auxVars == << cfVars, testUsersStorage, second >>

vars ==
  << urls, tracker, urlFilter, lastIndex, attached, now, order, closed, wire,
     pc, deadline, ws, ret, callVars, result, auxVars >>

(* No query was called in the last step.                                   *)
NoResult == [query |-> "none", args |-> <<>>, value |-> <<>>]

(* wsConnection.url()                                                     *)
UrlOf(c) == urls[c]

Opened == { order[i] : i \in 1..Len(order) }
IsOpen(c) == c \in Opened /\ c \notin closed
WireTotal ==
  LET RECURSIVE Sum(_)
      Sum(S) == IF S = {} THEN 0
                ELSE LET c == CHOOSE x \in S : TRUE
                     IN Len(wire[c].sent) + Len(wire[c].received) + Sum(S \ {c})
  IN Sum(Conns)

(* setupWebSocketMonitoring was called once only.                          *)
NoSecond == <<>>

(* A page without a challenge, no waitForCloudflareChallenge call yet.     *)
NoChallengePage ==
  [ indicatorVisible |-> FALSE, titleThrows |-> FALSE,
    titleMatches |-> FALSE, urlMatches |-> FALSE ]

CloudflareIdle ==
  /\ cfpc = "idle"
  /\ startTime = 0
  /\ maxWaitTime = 0
  /\ wakeTime = 0
  /\ stillChallenging = FALSE
  /\ cfReturned = Undefined

(* The state setupWebSocketMonitoring leaves, for one of the given setups.  *)
MonitoringInit(setups, budget) ==
  /\ \E setup \in setups : urls = setup.urls /\ urlFilter = setup.filter
  /\ frameBudget = budget
  /\ rpc = "idle"
  /\ tcInitialFrameCount = 0
  /\ baselineReceived = 0
  /\ tcSendTime = 0
  /\ initialReceivedCount = 0
  /\ pollDeadline = 0
  /\ tcResponseTime = 0
  /\ result = NoResult
  /\ tracker = createTracker
  /\ lastIndex = 0
  /\ attached = {}
  /\ now = 1
  /\ order = <<>>
  /\ closed = {}
  /\ wire = [c \in Conns |-> [sent |-> <<>>, received |-> <<>>]]
  /\ pc = "idle"
  /\ deadline = 0
  /\ ws = NullConn
  /\ ret = NullConn

InitWith(setups, budget) ==
  /\ MonitoringInit(setups, budget)
  /\ cfPage = NoChallengePage
  /\ CloudflareIdle
  /\ testUsersStorage = <<>>
  /\ second = NoSecond

Init == InitWith(Setups, MaxFrames)

(* Date.now() advances.                                                    *)
Tick ==
  /\ now < MaxTime
  /\ now' = now + 1
  /\ UNCHANGED auxVars
  /\ result' = NoResult
  /\ UNCHANGED callVars
  /\ UNCHANGED << urls, tracker, urlFilter, lastIndex, attached, order, closed,
                  wire, pc, deadline, ws, ret >>

(* setupWebSocketListener registering its handlers without binding.       *)
setupWebSocketListener_AttachOnly(tr, f, li, c) ==
  LET d == ListenerFilter(f, li, UrlOf(c))
  IN IF ~d.matches
       THEN [tracker |-> tr, attach |-> FALSE, lastIndex |-> d.lastIndex]
       ELSE [tracker |-> tr, attach |-> TRUE, lastIndex |-> d.lastIndex]

(* setupWebSocketListener binding every accepted connection, bound or not. *)
setupWebSocketListener_Rebinds(tr, f, li, c) ==
  LET d == ListenerFilter(f, li, UrlOf(c))
  IN IF ~d.matches
       THEN [tracker |-> tr, attach |-> FALSE, lastIndex |-> d.lastIndex]
       ELSE [tracker |->
               [tr EXCEPT !.connectionEstablishedTime = now,
                          !.connection = c,
                          !.url = <<UrlOf(c)>>],
             attach |-> TRUE,
             lastIndex |-> d.lastIndex]

(* page.on("websocket") listener body up to the handler registrations.     *)
setupWebSocketListener(tr, f, li, c) ==
  LET d == ListenerFilter(f, li, UrlOf(c))
  IN IF ~d.matches
       THEN [tracker |-> tr, attach |-> FALSE, lastIndex |-> d.lastIndex]
       ELSE [tracker |->
               IF tr.connection = NullConn
                 THEN [tr EXCEPT !.connectionEstablishedTime = now,
                                 !.connection = c,
                                 !.url = <<UrlOf(c)>>]
                 ELSE tr,
             attach |-> TRUE,
             lastIndex |-> d.lastIndex]

(* page.waitForEvent("websocket", {predicate}) listener, registered while  *)
(* the call is pending; it runs after the page.on listener.                *)
waitForEventPredicate(f, li, c) ==
  IF pc = "waiting"
    THEN PredicateFilter(f, li, UrlOf(c))
    ELSE [matches |-> FALSE, lastIndex |-> li]

(* The page opens WebSocket c: the "websocket" event is emitted.           *)
WebSocketOpened(c) ==
  /\ c \notin Opened
  /\ order' = Append(order, c)
  /\ LET l == setupWebSocketListener(tracker, urlFilter, lastIndex, c)
         p == waitForEventPredicate(urlFilter, l.lastIndex, c)
     IN /\ tracker' = l.tracker
        /\ attached' = IF l.attach THEN attached \cup {c} ELSE attached
        /\ lastIndex' = p.lastIndex
        /\ IF p.matches
             THEN pc' = "resolved" /\ ws' = c /\ deadline' = 0
             ELSE UNCHANGED << pc, ws, deadline >>
  /\ UNCHANGED auxVars
  /\ result' = NoResult
  /\ UNCHANGED callVars
  /\ UNCHANGED << urls, urlFilter, now, closed, wire, ret >>

(* "framereceived" handler.                                                *)
onFrameReceived(tr, payload) ==
  [tr EXCEPT !.receivedFrames =
     Append(@, [payload |-> payloadToString(payload), timestamp |-> now])]

(* "framesent" handler.                                                    *)
onFrameSent(tr, payload) ==
  [tr EXCEPT !.sentFrames =
     Append(@, [payload |-> payloadToString(payload), timestamp |-> now])]

(* onClose flipping the flag instead of setting it.                        *)
onClose_Toggles(tr) ==
  [tr EXCEPT !.connectionClosedTime = now, !.isClosed = ~@]

(* "close" handler.                                                        *)
onClose(tr) ==
  [tr EXCEPT !.connectionClosedTime = now, !.isClosed = TRUE]

FrameReceived(c, payload) ==
  /\ IsOpen(c)
  /\ WireTotal < frameBudget
  /\ wire' = [wire EXCEPT ![c].received = Append(@, payload)]
  /\ tracker' = IF c \in attached THEN onFrameReceived(tracker, payload)
                ELSE tracker
  /\ UNCHANGED auxVars
  /\ result' = NoResult
  /\ UNCHANGED callVars
  /\ UNCHANGED << urls, urlFilter, lastIndex, attached, now, order, closed,
                  pc, deadline, ws, ret >>

FrameSent(c, payload) ==
  /\ IsOpen(c)
  /\ WireTotal < frameBudget
  /\ wire' = [wire EXCEPT ![c].sent = Append(@, payload)]
  /\ tracker' = IF c \in attached THEN onFrameSent(tracker, payload)
                ELSE tracker
  /\ UNCHANGED auxVars
  /\ result' = NoResult
  /\ UNCHANGED callVars
  /\ UNCHANGED << urls, urlFilter, lastIndex, attached, now, order, closed,
                  pc, deadline, ws, ret >>

WebSocketClosed(c) ==
  /\ IsOpen(c)
  /\ closed' = closed \cup {c}
  /\ tracker' = IF c \in attached THEN onClose(tracker) ELSE tracker
  /\ UNCHANGED auxVars
  /\ result' = NoResult
  /\ UNCHANGED callVars
  /\ UNCHANGED << urls, urlFilter, lastIndex, attached, now, order, wire,
                  pc, deadline, ws, ret >>

(* waitForWebSocketConnection stamping the start time on every call.       *)
waitForWebSocketConnection_Restamps(tr, f, li) ==
  LET t1 == [tr EXCEPT !.connectionStartTime = now]
      d == IF t1.connection # NullConn /\ t1.url # NullUrl
             THEN FastPathFilter(f, li, t1.url[1])
             ELSE [matches |-> FALSE, lastIndex |-> li]
  IN [tracker |-> t1, returns |-> d.matches, lastIndex |-> d.lastIndex]

(* waitForWebSocketConnection up to its await: the start time, the         *)
(* already-bound fast path, and the registration of the wait.              *)
waitForWebSocketConnection(tr, f, li) ==
  LET t1 == IF tr.connectionStartTime = 0
              THEN [tr EXCEPT !.connectionStartTime = now] ELSE tr
      d == IF t1.connection # NullConn /\ t1.url # NullUrl
             THEN FastPathFilter(f, li, t1.url[1])
             ELSE [matches |-> FALSE, lastIndex |-> li]
  IN [tracker |-> t1, returns |-> d.matches, lastIndex |-> d.lastIndex]

WaitForConnectionCall(timeout) ==
  /\ pc \in {"idle", "done", "timedout"}
  /\ LET r == waitForWebSocketConnection(tracker, urlFilter, lastIndex)
     IN /\ r.returns \/ now + timeout <= MaxTime
        /\ tracker' = r.tracker
        /\ lastIndex' = r.lastIndex
        /\ IF r.returns
             THEN pc' = "done" /\ ret' = r.tracker.connection /\ deadline' = 0
             ELSE pc' = "waiting" /\ ret' = NullConn /\ deadline' = now + timeout
  /\ ws' = NullConn
  /\ UNCHANGED auxVars
  /\ result' = NoResult
  /\ UNCHANGED callVars
  /\ UNCHANGED << urls, urlFilter, attached, now, order, closed, wire >>

(* page.waitForEvent rejects once its timeout has elapsed.                 *)
WaitTimeout ==
  /\ pc = "waiting"
  /\ now >= deadline
  /\ pc' = "timedout"
  /\ deadline' = 0
  /\ UNCHANGED auxVars
  /\ result' = NoResult
  /\ UNCHANGED callVars
  /\ UNCHANGED << urls, tracker, urlFilter, lastIndex, attached, now, order,
                  closed, wire, ws, ret >>

(* waitForWebSocketConnection after its await.                             *)
waitForWebSocketConnectionResume(tr, w) ==
  IF tr.connection = NullConn
    THEN [tr EXCEPT !.connection = w,
                    !.url = <<UrlOf(w)>>,
                    !.connectionEstablishedTime = now]
    ELSE tr

WaitResume ==
  /\ pc = "resolved"
  /\ tracker' = waitForWebSocketConnectionResume(tracker, ws)
  /\ ret' = ws
  /\ pc' = "done"
  /\ UNCHANGED auxVars
  /\ result' = NoResult
  /\ UNCHANGED callVars
  /\ UNCHANGED << urls, urlFilter, lastIndex, attached, now, order, closed,
                  wire, deadline, ws >>

(* WebSocket.isClosed() of a connection handle.                            *)
connectionIsClosed(c) == c \in closed

(* verifyConnectivity accepting a zero connection time.                    *)
verifyConnectivity_ZeroOk(tr) ==
  LET connectionTime ==
        tr.connectionEstablishedTime - tr.connectionStartTime
      success ==
        tr.connection # NullConn /\ tr.url # NullUrl /\ connectionTime >= 0
  IN [ success        |-> success,
       connectionTime |-> connectionTime,
       url            |-> tr.url,
       failureReason  |-> IF success THEN Undefined
                          ELSE <<"WebSocket connection not established">> ]

verifyConnectivity(tr) ==
  LET connectionTime ==
        tr.connectionEstablishedTime - tr.connectionStartTime
      success ==
        tr.connection # NullConn /\ tr.url # NullUrl /\ connectionTime > 0
  IN [ success        |-> success,
       connectionTime |-> connectionTime,
       url            |-> tr.url,
       failureReason  |-> IF success THEN Undefined
                          ELSE <<"WebSocket connection not established">> ]

(* verifyPerformance that does not require a new frame.                    *)
verifyPerformance_LatencyOnly(tr, initialFrameCount, sendTime, responseTime, thresholdArg) ==
  LET threshold == IF thresholdArg = <<>> THEN WS_LATENCY_THRESHOLD_MS
                   ELSE thresholdArg[1]
      latency == responseTime - sendTime
      success == latency < threshold
  IN [ success       |-> success,
       latency       |-> latency,
       threshold     |-> threshold,
       failureReason |->
         IF success THEN Undefined
         ELSE <<"Latency ", latency, "ms >= ", threshold, "ms">> ]

(* threshold is <<>> when the caller omits it, <<n>> otherwise.            *)
verifyPerformance(tr, initialFrameCount, sendTime, responseTime, thresholdArg) ==
  LET threshold == IF thresholdArg = <<>> THEN WS_LATENCY_THRESHOLD_MS
                   ELSE thresholdArg[1]
      latency == responseTime - sendTime
      totalFrames == Len(tr.sentFrames) + Len(tr.receivedFrames)
      newFramesDetected == totalFrames > initialFrameCount
      success == latency < threshold /\ newFramesDetected
  IN [ success       |-> success,
       latency       |-> latency,
       threshold     |-> threshold,
       failureReason |->
         IF success THEN Undefined
         ELSE <<"Latency ", latency, "ms >= ", threshold, "ms">>
              \o (IF ~newFramesDetected
                    THEN <<"; No new frames detected">> ELSE <<>>) ]

(* verifyClosure that reports its reason on success too.                   *)
verifyClosure_AlwaysReason(tr) ==
  LET isClosed ==
        tr.isClosed
        \/ (tr.connection # NullConn /\ connectionIsClosed(tr.connection))
  IN [ success       |-> isClosed,
       isClosed      |-> isClosed,
       closureTime   |-> tr.connectionClosedTime,
       failureReason |-> <<"WebSocket connection is still open">> ]

verifyClosure(tr) ==
  LET isClosed ==
        tr.isClosed
        \/ (tr.connection # NullConn /\ connectionIsClosed(tr.connection))
  IN [ success       |-> isClosed,
       isClosed      |-> isClosed,
       closureTime   |-> tr.connectionClosedTime,
       failureReason |-> IF isClosed THEN Undefined
                         ELSE <<"WebSocket connection is still open">> ]

(* JSON.parse on the payload texts the frames can hold: it returns for a   *)
(* JSON value and throws for anything else, the empty text included.      *)
JsonTexts == { "{}", "[]", "null", "true", "0" }
JsonParse(text) == [throws |-> text \notin JsonTexts]

(* frame.payload && frame.payload.length > 0                               *)
NonEmpty(text) == text # ""

(* verifyIntegrity counting only the frames that parse as JSON as valid.   *)
verifyIntegrity_JsonOnly(tr) ==
  LET RECURSIVE Count(_, _, _)
      Count(i, validFrames, invalidFrames) ==
        IF i > Len(tr.receivedFrames)
          THEN [validFrames |-> validFrames, invalidFrames |-> invalidFrames]
          ELSE IF ~JsonParse(tr.receivedFrames[i].payload).throws
                 THEN Count(i + 1, validFrames + 1, invalidFrames)
                 ELSE Count(i + 1, validFrames, invalidFrames + 1)
      n == Count(1, 0, 0)
      success == n.validFrames > 0
      totalFrames == Len(tr.receivedFrames)
  IN [ success       |-> success,
       validFrames   |-> n.validFrames,
       invalidFrames |-> n.invalidFrames,
       totalFrames   |-> totalFrames,
       failureReason |-> IF success THEN Undefined
                         ELSE <<"No valid frames found (", totalFrames, " total)">> ]

(* verifyIntegrity counting a frame with an empty payload as valid.        *)
verifyIntegrity_EmptyValid(tr) ==
  LET RECURSIVE Count(_, _, _)
      Count(i, validFrames, invalidFrames) ==
        IF i > Len(tr.receivedFrames)
          THEN [validFrames |-> validFrames, invalidFrames |-> invalidFrames]
          ELSE Count(i + 1, validFrames + 1, invalidFrames)
      n == Count(1, 0, 0)
      success == n.validFrames > 0
      totalFrames == Len(tr.receivedFrames)
  IN [ success       |-> success,
       validFrames   |-> n.validFrames,
       invalidFrames |-> n.invalidFrames,
       totalFrames   |-> totalFrames,
       failureReason |-> IF success THEN Undefined
                         ELSE <<"No valid frames found (", totalFrames, " total)">> ]

verifyIntegrity(tr) ==
  LET RECURSIVE Count(_, _, _)
      Count(i, validFrames, invalidFrames) ==
        IF i > Len(tr.receivedFrames)
          THEN [validFrames |-> validFrames, invalidFrames |-> invalidFrames]
          ELSE LET payload == tr.receivedFrames[i].payload
               IN IF ~JsonParse(payload).throws
                    THEN Count(i + 1, validFrames + 1, invalidFrames)
                    ELSE IF NonEmpty(payload)
                           THEN Count(i + 1, validFrames + 1, invalidFrames)
                           ELSE Count(i + 1, validFrames, invalidFrames + 1)
      n == Count(1, 0, 0)
      success == n.validFrames > 0
      totalFrames == Len(tr.receivedFrames)
  IN [ success       |-> success,
       validFrames   |-> n.validFrames,
       invalidFrames |-> n.invalidFrames,
       totalFrames   |-> totalFrames,
       failureReason |-> IF success THEN Undefined
                         ELSE <<"No valid frames found (", totalFrames, " total)">> ]

(* ------------- the latency and closure steps of the test body --------- *)
pageVars ==
  << urls, tracker, urlFilter, lastIndex, attached, now, order, closed, wire,
     pc, deadline, ws, ret >>

(* The 2000 ms of the second expect.poll, in steps of the model's clock.   *)
GraceTimeout == 1

(* Positions at which the test body is not suspended in an await.          *)
FreePositions ==
  { "idle", "sent", "returned", "failed", "closureReturned", "closureFailed" }

(* getSentFrames().length + getReceivedFrames().length                     *)
getInitialFrameCount(tr) == Len(tr.sentFrames) + Len(tr.receivedFrames)

(* The test body takes the baseline and sends the command.                 *)
ExecuteTerminalCommand ==
  /\ rpc \in FreePositions
  /\ tcInitialFrameCount' = getInitialFrameCount(tracker)
  /\ baselineReceived' = Len(tracker.receivedFrames)
  /\ tcSendTime' = now
  /\ rpc' = "sent"
  /\ initialReceivedCount' = 0
  /\ pollDeadline' = 0
  /\ tcResponseTime' = 0
  /\ UNCHANGED auxVars
  /\ result' = NoResult
  /\ UNCHANGED << pageVars, frameBudget >>

(* waitForWebSocketResponse up to the first check of its first poll.       *)
WaitForResponseCall(timeout) ==
  /\ rpc = "sent"
  /\ \/ getInitialFrameCount(tracker) > tcInitialFrameCount
     \/ now + timeout <= MaxTime
  /\ initialReceivedCount' = Len(tracker.receivedFrames)
  /\ IF getInitialFrameCount(tracker) > tcInitialFrameCount
       THEN rpc' = "grace" /\ pollDeadline' = now + GraceTimeout
       ELSE rpc' = "poll" /\ pollDeadline' = now + timeout
  /\ UNCHANGED auxVars
  /\ result' = NoResult
  /\ UNCHANGED << pageVars, frameBudget, tcInitialFrameCount, baselineReceived,
                  tcSendTime, tcResponseTime >>

(* The first poll sees the frame total above the baseline.                 *)
ResponsePollPass ==
  /\ rpc = "poll"
  /\ getInitialFrameCount(tracker) > tcInitialFrameCount
  /\ rpc' = "grace"
  /\ pollDeadline' = now + GraceTimeout
  /\ UNCHANGED auxVars
  /\ result' = NoResult
  /\ UNCHANGED << pageVars, frameBudget, tcInitialFrameCount, baselineReceived,
                  tcSendTime, initialReceivedCount, tcResponseTime >>

(* ResponsePollTimeout swallowing the timeout and going on.               *)
ResponsePollTimeout_Swallowed ==
  /\ rpc = "poll"
  /\ now >= pollDeadline
  /\ rpc' = "grace"
  /\ pollDeadline' = now + GraceTimeout
  /\ UNCHANGED auxVars
  /\ result' = NoResult
  /\ UNCHANGED << pageVars, frameBudget, tcInitialFrameCount, baselineReceived,
                  tcSendTime, initialReceivedCount, tcResponseTime >>

(* The first poll gives up: waitForWebSocketResponse rejects.              *)
ResponsePollTimeout ==
  /\ rpc = "poll"
  /\ now >= pollDeadline
  /\ rpc' = "failed"
  /\ pollDeadline' = 0
  /\ UNCHANGED auxVars
  /\ result' = NoResult
  /\ UNCHANGED << pageVars, frameBudget, tcInitialFrameCount, baselineReceived,
                  tcSendTime, initialReceivedCount, tcResponseTime >>

(* responseTimestamp without the fallback to the latest received frame.    *)
responseTimestamp_NoFallback(tr, receivedBefore) ==
  IF Len(tr.receivedFrames) > receivedBefore
    THEN tr.receivedFrames[receivedBefore + 1].timestamp
    ELSE now

(* The timestamp waitForWebSocketResponse returns after its second poll.   *)
responseTimestamp(tr, receivedBefore) ==
  IF Len(tr.receivedFrames) > receivedBefore
    THEN tr.receivedFrames[receivedBefore + 1].timestamp
    ELSE IF Len(tr.receivedFrames) > 0
           THEN tr.receivedFrames[Len(tr.receivedFrames)].timestamp
           ELSE now

(* ResponseGraceEnd recording a frame of its own when none was received.   *)
ResponseGraceEnd_Fabricates ==
  /\ rpc = "grace"
  /\ \/ Len(tracker.receivedFrames) > initialReceivedCount
     \/ now >= pollDeadline
  /\ tcResponseTime' = responseTimestamp(tracker, initialReceivedCount)
  /\ tracker' = IF tracker.receivedFrames = <<>>
                  THEN [tracker EXCEPT !.receivedFrames =
                          <<[payload |-> "", timestamp |-> now]>>]
                  ELSE tracker
  /\ rpc' = "returned"
  /\ pollDeadline' = 0
  /\ UNCHANGED auxVars
  /\ result' = NoResult
  /\ UNCHANGED << urls, urlFilter, lastIndex, attached, now, order, closed,
                  wire, pc, deadline, ws, ret, frameBudget,
                  tcInitialFrameCount, baselineReceived, tcSendTime,
                  initialReceivedCount >>

(* The second poll passes or gives up (caught), and the function returns.  *)
ResponseGraceEnd ==
  /\ rpc = "grace"
  /\ \/ Len(tracker.receivedFrames) > initialReceivedCount
     \/ now >= pollDeadline
  /\ tcResponseTime' = responseTimestamp(tracker, initialReceivedCount)
  /\ rpc' = "returned"
  /\ pollDeadline' = 0
  /\ UNCHANGED auxVars
  /\ result' = NoResult
  /\ UNCHANGED << pageVars, frameBudget, tcInitialFrameCount, baselineReceived,
                  tcSendTime, initialReceivedCount >>

(* tracker.isClosed || (connection !== null && connection.isClosed())      *)
closureObserved(tr) ==
  tr.isClosed \/ (tr.connection # NullConn /\ connectionIsClosed(tr.connection))

(* waitForClosure up to its await.                                         *)
WaitForClosureCall(timeout) ==
  /\ rpc \in FreePositions
  /\ closureObserved(tracker) \/ now + timeout <= MaxTime
  /\ IF closureObserved(tracker)
       THEN rpc' = "closureReturned" /\ pollDeadline' = 0
       ELSE rpc' = "closureWait" /\ pollDeadline' = now + timeout
  /\ tcInitialFrameCount' = 0
  /\ baselineReceived' = 0
  /\ tcSendTime' = 0
  /\ initialReceivedCount' = 0
  /\ tcResponseTime' = 0
  /\ UNCHANGED auxVars
  /\ result' = NoResult
  /\ UNCHANGED << pageVars, frameBudget >>

ClosurePollPass ==
  /\ rpc = "closureWait"
  /\ closureObserved(tracker)
  /\ rpc' = "closureReturned"
  /\ pollDeadline' = 0
  /\ UNCHANGED auxVars
  /\ result' = NoResult
  /\ UNCHANGED << pageVars, frameBudget, tcInitialFrameCount, baselineReceived,
                  tcSendTime, initialReceivedCount, tcResponseTime >>

(* The poll gives up; the error is thrown again after the final check.     *)
ClosurePollTimeout ==
  /\ rpc = "closureWait"
  /\ now >= pollDeadline
  /\ rpc' = "closureFailed"
  /\ pollDeadline' = 0
  /\ UNCHANGED auxVars
  /\ result' = NoResult
  /\ UNCHANGED << pageVars, frameBudget, tcInitialFrameCount, baselineReceived,
                  tcSendTime, initialReceivedCount, tcResponseTime >>

(* The handle's verify* methods, called by the test body.                  *)
VerifyConnectivityCall ==
  /\ rpc \in FreePositions
  /\ UNCHANGED auxVars
  /\ result' = [query |-> "verifyConnectivity", args |-> <<>>,
                value |-> verifyConnectivity(tracker)]
  /\ UNCHANGED << pageVars, callVars >>

VerifyPerformanceCall(thresholdArg) ==
  /\ rpc = "returned"
  /\ UNCHANGED auxVars
  /\ result' = [query |-> "verifyPerformance",
                args  |-> << tcInitialFrameCount, tcSendTime, tcResponseTime,
                             thresholdArg >>,
                value |-> verifyPerformance(tracker, tcInitialFrameCount,
                                            tcSendTime, tcResponseTime,
                                            thresholdArg)]
  /\ UNCHANGED << pageVars, callVars >>

(* VerifyIntegrityCall consuming the frames it has counted.                *)
VerifyIntegrityCall_Drains ==
  /\ rpc \in FreePositions
  /\ UNCHANGED auxVars
  /\ result' = [query |-> "verifyIntegrity", args |-> <<>>,
                value |-> verifyIntegrity(tracker)]
  /\ tracker' = [tracker EXCEPT !.receivedFrames = <<>>]
  /\ UNCHANGED << urls, urlFilter, lastIndex, attached, now, order, closed,
                  wire, pc, deadline, ws, ret, callVars >>

VerifyIntegrityCall ==
  /\ rpc \in FreePositions
  /\ UNCHANGED auxVars
  /\ result' = [query |-> "verifyIntegrity", args |-> <<>>,
                value |-> verifyIntegrity(tracker)]
  /\ UNCHANGED << pageVars, callVars >>

VerifyClosureCall ==
  /\ rpc \in FreePositions
  /\ UNCHANGED auxVars
  /\ result' = [query |-> "verifyClosure", args |-> <<>>,
                value |-> verifyClosure(tracker)]
  /\ UNCHANGED << pageVars, callVars >>

Next ==
  \/ Tick
  \/ \E c \in Conns : WebSocketOpened(c)
  \/ \E c \in Conns, payload \in ReceivedPayloads : FrameReceived(c, payload)
  \/ \E c \in Conns, payload \in SentPayloads : FrameSent(c, payload)
  \/ \E c \in Conns : WebSocketClosed(c)
  \/ \E timeout \in 1..MaxTimeout : WaitForConnectionCall(timeout)
  \/ WaitTimeout
  \/ WaitResume

Spec == Init /\ [][Next]_vars

(* The clock advances and a pending waitForEvent timer fires.              *)
FairSpec == Spec /\ WF_vars(Tick) /\ WF_vars(WaitTimeout)

(* verifyMinimumFrames asking for more than the minimum.                   *)
verifyMinimumFrames_Strict(initialCount, currentSentFrames, currentReceivedFrames, minimumArg) ==
  LET minimumExpectedFrames == IF minimumArg = <<>> THEN 2 ELSE minimumArg[1]
      totalFrames == currentSentFrames + currentReceivedFrames
      totalNewFrames == totalFrames - initialCount
      success == totalNewFrames > minimumExpectedFrames
  IN [ success         |-> success,
       totalNewFrames  |-> totalNewFrames,
       minimumExpected |-> minimumExpectedFrames,
       failureReason   |->
         IF success THEN Undefined
         ELSE <<"Expected at least ", minimumExpectedFrames,
                " new frames, got ", totalNewFrames>> ]

(* WorkspacePage.verifyMinimumFrames; minimumArg is <<>> when the caller   *)
(* omits the minimum, <<n>> otherwise.                                     *)
verifyMinimumFrames(initialCount, currentSentFrames, currentReceivedFrames, minimumArg) ==
  LET minimumExpectedFrames == IF minimumArg = <<>> THEN 2 ELSE minimumArg[1]
      totalFrames == currentSentFrames + currentReceivedFrames
      totalNewFrames == totalFrames - initialCount
      success == totalNewFrames >= minimumExpectedFrames
  IN [ success         |-> success,
       totalNewFrames  |-> totalNewFrames,
       minimumExpected |-> minimumExpectedFrames,
       failureReason   |->
         IF success THEN Undefined
         ELSE <<"Expected at least ", minimumExpectedFrames,
                " new frames, got ", totalNewFrames>> ]

(* A global RegExp filter on a page whose second terminal socket has a     *)
(* URL in which the pattern occurs twice.                                  *)
UrlTerminalNamed == <<"ws", "terminal", "terminal">>
TerminalAndNamedTerminal ==
  [c \in Conns |-> IF c = 2 THEN UrlTerminalNamed ELSE UrlTerminal]
GlobalRegExpSetups ==
  { [filter |-> RegExpFilter(<<"terminal">>, TRUE),
     urls   |-> TerminalAndNamedTerminal] }

GlobalRegExpInit == InitWith(GlobalRegExpSetups, MaxFrames)

GlobalRegExpSpec == GlobalRegExpInit /\ [][Next]_vars

(* The setup of TC_005: the "/ws/terminal" filter, on a page that opens    *)
(* two terminal sockets.                                                   *)
TestSetups ==
  { [filter |-> StringFilter(<<"terminal">>), urls |-> TwoTerminals] }

(* The text payloads the terminal sockets receive.                         *)
TestReceivedPayloads == { StringPayload(""), StringPayload("{}") }

TestInit == InitWith(TestSetups, MaxFrames)

(* The page's events and the test body's latency and closure steps.        *)
WaitNext ==
  \/ Tick
  \/ \E c \in Conns : WebSocketOpened(c)
  \/ \E c \in Conns, payload \in TestReceivedPayloads : FrameReceived(c, payload)
  \/ \E c \in Conns, payload \in SentPayloads : FrameSent(c, payload)
  \/ \E c \in Conns : WebSocketClosed(c)
  \/ ExecuteTerminalCommand
  \/ \E timeout \in 1..MaxTimeout : WaitForResponseCall(timeout)
  \/ ResponsePollPass
  \/ ResponsePollTimeout
  \/ ResponseGraceEnd
  \/ \E timeout \in 1..MaxTimeout : WaitForClosureCall(timeout)
  \/ ClosurePollPass
  \/ ClosurePollTimeout

WaitSpec == TestInit /\ [][WaitNext]_vars

(* The clock advances and a pending expect.poll gives up at its deadline.  *)
FairWaitSpec ==
  WaitSpec /\ WF_vars(Tick) /\ WF_vars(ResponsePollTimeout)
           /\ WF_vars(ClosurePollTimeout)

(* The same with the verify* queries the test body calls in between.       *)
TestNext ==
  \/ WaitNext
  \/ VerifyConnectivityCall
  \/ \E thresholdArg \in { <<>>, <<1>> } : VerifyPerformanceCall(thresholdArg)
  \/ VerifyIntegrityCall
  \/ VerifyClosureCall

TestSpec == TestInit /\ [][TestNext]_vars

(* The page's events alone, with room for a sent and a received frame.     *)
PageNext ==
  \/ Tick
  \/ \E c \in Conns : WebSocketOpened(c)
  \/ \E c \in Conns, payload \in TestReceivedPayloads : FrameReceived(c, payload)
  \/ \E c \in Conns, payload \in SentPayloads : FrameSent(c, payload)
  \/ \E c \in Conns : WebSocketClosed(c)

FramesInit == InitWith(TestSetups, MaxFrames + 1)

FramesSpec == FramesInit /\ [][PageNext]_vars

(* What isCloudflareChallenge looks at: a visible indicator element, the  *)
(* page title (reading it may throw) and the page URL.                     *)
CfPages ==
  [ indicatorVisible : BOOLEAN, titleThrows : BOOLEAN,
    titleMatches : BOOLEAN, urlMatches : BOOLEAN ]

(* BasePage.isCloudflareChallenge                                          *)
isCloudflareChallenge(p) ==
  IF p.indicatorVisible THEN TRUE
  ELSE IF p.titleThrows THEN FALSE
  ELSE IF p.titleMatches THEN TRUE
  ELSE p.urlMatches

(* const checkInterval = 1000: one unit of the model's clock.              *)
checkInterval == 1

(* The loop of waitForCloudflareChallenge reporting success on a timeout.  *)
waitForCloudflareChallengeLoop_TrueOnTimeout(p, t, start, maxWait, still) ==
  IF t - start < maxWait
    THEN LET sc == isCloudflareChallenge(p)
         IN IF ~sc
              THEN [ pc |-> "returned", returned |-> <<TRUE>>,
                     stillChallenging |-> sc, wakeTime |-> 0 ]
              ELSE [ pc |-> "sleeping", returned |-> <<>>,
                     stillChallenging |-> sc, wakeTime |-> t + checkInterval ]
    ELSE [ pc |-> "returned", returned |-> <<TRUE>>,
           stillChallenging |-> still, wakeTime |-> 0 ]

(* One pass of waitForCloudflareChallenge's while loop at time t: the      *)
(* condition, the re-check, and either a return or the start of the sleep. *)
waitForCloudflareChallengeLoop(p, t, start, maxWait, still) ==
  IF t - start < maxWait
    THEN LET sc == isCloudflareChallenge(p)
         IN IF ~sc
              THEN [ pc |-> "returned", returned |-> <<TRUE>>,
                     stillChallenging |-> sc, wakeTime |-> 0 ]
              ELSE [ pc |-> "sleeping", returned |-> <<>>,
                     stillChallenging |-> sc, wakeTime |-> t + checkInterval ]
    ELSE [ pc |-> "returned", returned |-> <<FALSE>>,
           stillChallenging |-> still, wakeTime |-> 0 ]

(* The challenge appears, is solved, or the page otherwise changes.        *)
CloudflarePageChanges(p) ==
  /\ p # cfPage
  /\ cfPage' = p
  /\ result' = NoResult
  /\ UNCHANGED << cfpc, startTime, maxWaitTime, wakeTime, stillChallenging,
                  cfReturned, testUsersStorage, second >>
  /\ UNCHANGED callVars
  /\ UNCHANGED << urls, tracker, urlFilter, lastIndex, attached, now, order,
                  closed, wire, pc, deadline, ws, ret >>

(* waitForCloudflareChallenge up to its loop: the first check and the      *)
(* start time.                                                             *)
WaitForCloudflareChallengeCall(maxWait) ==
  /\ cfpc \in {"idle", "returned"}
  /\ now + maxWait <= MaxTime
  /\ maxWaitTime' = maxWait
  /\ LET isChallenge == isCloudflareChallenge(cfPage)
     IN /\ stillChallenging' = isChallenge
        /\ IF ~isChallenge
             THEN cfpc' = "returned" /\ cfReturned' = <<TRUE>> /\ startTime' = 0
             ELSE cfpc' = "loop" /\ cfReturned' = <<>> /\ startTime' = now
  /\ wakeTime' = 0
  /\ result' = NoResult
  /\ UNCHANGED << cfPage, testUsersStorage, second >>
  /\ UNCHANGED callVars
  /\ UNCHANGED << urls, tracker, urlFilter, lastIndex, attached, now, order,
                  closed, wire, pc, deadline, ws, ret >>

CloudflareLoop ==
  /\ cfpc = "loop"
  /\ LET r == waitForCloudflareChallengeLoop(cfPage, now, startTime,
                                             maxWaitTime, stillChallenging)
     IN /\ cfpc' = r.pc
        /\ cfReturned' = r.returned
        /\ stillChallenging' = r.stillChallenging
        /\ wakeTime' = r.wakeTime
  /\ result' = NoResult
  /\ UNCHANGED << cfPage, startTime, maxWaitTime, testUsersStorage, second >>
  /\ UNCHANGED callVars
  /\ UNCHANGED << urls, tracker, urlFilter, lastIndex, attached, now, order,
                  closed, wire, pc, deadline, ws, ret >>

(* page.waitForTimeout(checkInterval) resolves.                            *)
CloudflareWake ==
  /\ cfpc = "sleeping"
  /\ now >= wakeTime
  /\ cfpc' = "loop"
  /\ wakeTime' = 0
  /\ result' = NoResult
  /\ UNCHANGED << cfPage, startTime, maxWaitTime, stillChallenging, cfReturned,
                  testUsersStorage, second >>
  /\ UNCHANGED callVars
  /\ UNCHANGED << urls, tracker, urlFilter, lastIndex, attached, now, order,
                  closed, wire, pc, deadline, ws, ret >>

CloudflareNext ==
  \/ Tick
  \/ \E p \in CfPages : CloudflarePageChanges(p)
  \/ \E maxWait \in 0..MaxTimeout : WaitForCloudflareChallengeCall(maxWait)
  \/ CloudflareLoop
  \/ CloudflareWake

CloudflareInit ==
  /\ MonitoringInit(TestSetups, 0)
  /\ cfPage \in CfPages
  /\ CloudflareIdle
  /\ testUsersStorage = <<>>
  /\ second = NoSecond

CloudflareSpec == CloudflareInit /\ [][CloudflareNext]_vars

(* Time advances, and the pending call runs on.                            *)
FairCloudflareSpec ==
  /\ CloudflareSpec
  /\ WF_vars(Tick)
  /\ WF_vars(CloudflareLoop)
  /\ WF_vars(CloudflareWake)

(* The arguments the tests give the test-user storage.                    *)
Emails == { "a@test", "b@test" }
Passwords == { "initialPassword", "newPassword" }
Names == { "Test User" }
VerifiedArgs == { <<>>, <<TRUE>>, <<FALSE>> }

(* new Date().toISOString() at time t.                                     *)
toISOString(t) == <<"1970-01-01T00:00:0", t, "Z">>

(* Array.prototype.findIndex on the email, 0-based, -1 when absent.        *)
findIndex(storage, email) ==
  LET hits == { i \in 1..Len(storage) : storage[i].email = email }
  IN IF hits = {} THEN -1 ELSE Min(hits) - 1

(* saveTestUser pushing the new user whether or not the email is stored.   *)
saveTestUser_AlwaysPushes(storage, email, password, name, verifiedArg, t) ==
  LET verified == IF verifiedArg = <<>> THEN FALSE ELSE verifiedArg[1]
      newUser == [ email |-> email, password |-> password, name |-> name,
                   createdAt |-> toISOString(t), verified |-> verified ]
  IN Append(storage, newUser)

(* verifiedArg is <<>> when the caller omits it, <<b>> otherwise.          *)
saveTestUser(storage, email, password, name, verifiedArg, t) ==
  LET verified == IF verifiedArg = <<>> THEN FALSE ELSE verifiedArg[1]
      existingIndex == findIndex(storage, email)
      newUser == [ email |-> email, password |-> password, name |-> name,
                   createdAt |-> toISOString(t), verified |-> verified ]
  IN IF existingIndex >= 0
       THEN [storage EXCEPT ![existingIndex + 1] = newUser]
       ELSE Append(storage, newUser)

markUserAsVerified(storage, email) ==
  LET index == findIndex(storage, email)
  IN IF index >= 0
       THEN [storage EXCEPT ![index + 1].verified = TRUE]
       ELSE storage

clearAllTestUsers(storage) == <<>>

SaveTestUser(email, password, name, verifiedArg) ==
  /\ testUsersStorage' =
       saveTestUser(testUsersStorage, email, password, name, verifiedArg, now)
  /\ result' = [query |-> "saveTestUser",
                args |-> <<email, password, name, verifiedArg>>,
                value |-> <<>>]
  /\ UNCHANGED << cfVars, second >>
  /\ UNCHANGED callVars
  /\ UNCHANGED << urls, tracker, urlFilter, lastIndex, attached, now, order,
                  closed, wire, pc, deadline, ws, ret >>

MarkUserAsVerified(email) ==
  /\ testUsersStorage' = markUserAsVerified(testUsersStorage, email)
  /\ result' = [query |-> "markUserAsVerified", args |-> <<email>>,
                value |-> <<>>]
  /\ UNCHANGED << cfVars, second >>
  /\ UNCHANGED callVars
  /\ UNCHANGED << urls, tracker, urlFilter, lastIndex, attached, now, order,
                  closed, wire, pc, deadline, ws, ret >>

ClearAllTestUsers ==
  /\ testUsersStorage' = clearAllTestUsers(testUsersStorage)
  /\ result' = [query |-> "clearAllTestUsers", args |-> <<>>, value |-> <<>>]
  /\ UNCHANGED << cfVars, second >>
  /\ UNCHANGED callVars
  /\ UNCHANGED << urls, tracker, urlFilter, lastIndex, attached, now, order,
                  closed, wire, pc, deadline, ws, ret >>

StorageNext ==
  \/ Tick
  \/ \E email \in Emails, password \in Passwords, name \in Names,
        verifiedArg \in VerifiedArgs :
       SaveTestUser(email, password, name, verifiedArg)
  \/ \E email \in Emails : MarkUserAsVerified(email)
  \/ ClearAllTestUsers

(* The module has just been loaded: the array is empty.                    *)
StorageInit == InitWith(TestSetups, 0)

StorageSpec == StorageInit /\ [][StorageNext]_vars

(* What a second setupWebSocketMonitoring(page, true, f) call creates: its *)
(* own tracker and filter, and the position of its handle's               *)
(* waitForConnection.                                                      *)
setupWebSocketMonitoring(f) ==
  [ tracker   |-> createTracker,
    urlFilter |-> f,
    lastIndex |-> 0,
    attached  |-> {},
    pc        |-> "idle",
    deadline  |-> 0,
    ws        |-> NullConn,
    ret       |-> NullConn ]

(* The second call's page.on listener and pending waitForEvent predicate   *)
(* on the "websocket" event of c.                                          *)
secondOnWebSocket(m, c) ==
  LET l == setupWebSocketListener(m.tracker, m.urlFilter, m.lastIndex, c)
      p == IF m.pc = "waiting"
             THEN PredicateFilter(m.urlFilter, l.lastIndex, UrlOf(c))
             ELSE [matches |-> FALSE, lastIndex |-> l.lastIndex]
  IN [m EXCEPT !.tracker = l.tracker,
               !.attached = IF l.attach THEN @ \cup {c} ELSE @,
               !.lastIndex = p.lastIndex,
               !.pc = IF p.matches THEN "resolved" ELSE @,
               !.ws = IF p.matches THEN c ELSE @,
               !.deadline = IF p.matches THEN 0 ELSE @]

(* The page opens WebSocket c: both calls' listeners run.                  *)
PairWebSocketOpened(c) ==
  /\ c \notin Opened
  /\ order' = Append(order, c)
  /\ LET l == setupWebSocketListener(tracker, urlFilter, lastIndex, c)
         p == waitForEventPredicate(urlFilter, l.lastIndex, c)
     IN /\ tracker' = l.tracker
        /\ attached' = IF l.attach THEN attached \cup {c} ELSE attached
        /\ lastIndex' = p.lastIndex
        /\ IF p.matches
             THEN pc' = "resolved" /\ ws' = c /\ deadline' = 0
             ELSE UNCHANGED << pc, ws, deadline >>
  /\ second' = secondOnWebSocket(second, c)
  /\ result' = NoResult
  /\ UNCHANGED << cfVars, testUsersStorage >>
  /\ UNCHANGED callVars
  /\ UNCHANGED << urls, urlFilter, now, closed, wire, ret >>

(* A received frame reaching both trackers whatever their filters.         *)
PairFrameReceived_Broadcast(c, payload) ==
  /\ IsOpen(c)
  /\ WireTotal < frameBudget
  /\ wire' = [wire EXCEPT ![c].received = Append(@, payload)]
  /\ tracker' = onFrameReceived(tracker, payload)
  /\ second' = [second EXCEPT !.tracker = onFrameReceived(@, payload)]
  /\ result' = NoResult
  /\ UNCHANGED << cfVars, testUsersStorage >>
  /\ UNCHANGED callVars
  /\ UNCHANGED << urls, urlFilter, lastIndex, attached, now, order, closed,
                  pc, deadline, ws, ret >>

PairFrameReceived(c, payload) ==
  /\ IsOpen(c)
  /\ WireTotal < frameBudget
  /\ wire' = [wire EXCEPT ![c].received = Append(@, payload)]
  /\ tracker' = IF c \in attached THEN onFrameReceived(tracker, payload)
                ELSE tracker
  /\ second' = IF c \in second.attached
                 THEN [second EXCEPT !.tracker = onFrameReceived(@, payload)]
                 ELSE second
  /\ result' = NoResult
  /\ UNCHANGED << cfVars, testUsersStorage >>
  /\ UNCHANGED callVars
  /\ UNCHANGED << urls, urlFilter, lastIndex, attached, now, order, closed,
                  pc, deadline, ws, ret >>

PairFrameSent(c, payload) ==
  /\ IsOpen(c)
  /\ WireTotal < frameBudget
  /\ wire' = [wire EXCEPT ![c].sent = Append(@, payload)]
  /\ tracker' = IF c \in attached THEN onFrameSent(tracker, payload)
                ELSE tracker
  /\ second' = IF c \in second.attached
                 THEN [second EXCEPT !.tracker = onFrameSent(@, payload)]
                 ELSE second
  /\ result' = NoResult
  /\ UNCHANGED << cfVars, testUsersStorage >>
  /\ UNCHANGED callVars
  /\ UNCHANGED << urls, urlFilter, lastIndex, attached, now, order, closed,
                  pc, deadline, ws, ret >>

PairWebSocketClosed(c) ==
  /\ IsOpen(c)
  /\ closed' = closed \cup {c}
  /\ tracker' = IF c \in attached THEN onClose(tracker) ELSE tracker
  /\ second' = IF c \in second.attached
                 THEN [second EXCEPT !.tracker = onClose(@)]
                 ELSE second
  /\ result' = NoResult
  /\ UNCHANGED << cfVars, testUsersStorage >>
  /\ UNCHANGED callVars
  /\ UNCHANGED << urls, urlFilter, lastIndex, attached, now, order, wire,
                  pc, deadline, ws, ret >>

(* waitForConnection on the second handle.                                 *)
SecondWaitForConnectionCall(timeout) ==
  /\ second.pc \in {"idle", "done", "timedout"}
  /\ LET r == waitForWebSocketConnection(second.tracker, second.urlFilter,
                                         second.lastIndex)
     IN /\ r.returns \/ now + timeout <= MaxTime
        /\ second' =
             [second EXCEPT
                !.tracker = r.tracker,
                !.lastIndex = r.lastIndex,
                !.pc = IF r.returns THEN "done" ELSE "waiting",
                !.ret = IF r.returns THEN r.tracker.connection ELSE NullConn,
                !.deadline = IF r.returns THEN 0 ELSE now + timeout,
                !.ws = NullConn]
  /\ result' = NoResult
  /\ UNCHANGED << cfVars, testUsersStorage >>
  /\ UNCHANGED callVars
  /\ UNCHANGED << urls, tracker, urlFilter, lastIndex, attached, now, order,
                  closed, wire, pc, deadline, ws, ret >>

SecondWaitTimeout ==
  /\ second.pc = "waiting"
  /\ now >= second.deadline
  /\ second' = [second EXCEPT !.pc = "timedout", !.deadline = 0]
  /\ result' = NoResult
  /\ UNCHANGED << cfVars, testUsersStorage >>
  /\ UNCHANGED callVars
  /\ UNCHANGED << urls, tracker, urlFilter, lastIndex, attached, now, order,
                  closed, wire, pc, deadline, ws, ret >>

SecondWaitResume ==
  /\ second.pc = "resolved"
  /\ second' =
       [second EXCEPT
          !.tracker = waitForWebSocketConnectionResume(@, second.ws),
          !.ret = second.ws,
          !.pc = "done"]
  /\ result' = NoResult
  /\ UNCHANGED << cfVars, testUsersStorage >>
  /\ UNCHANGED callVars
  /\ UNCHANGED << urls, tracker, urlFilter, lastIndex, attached, now, order,
                  closed, wire, pc, deadline, ws, ret >>

(* The filters given to the two calls: the terminal socket for the first,  *)
(* every socket for the second; the page opens a terminal socket and a     *)
(* file-system socket.                                                     *)
PairSetups ==
  { [filter |-> StringFilter(<<"terminal">>), urls |-> TerminalAndFs] }

PairReceivedPayloads == { StringPayload("{}") }

PairInit ==
  /\ MonitoringInit(PairSetups, MaxFrames)
  /\ cfPage = NoChallengePage
  /\ CloudflareIdle
  /\ testUsersStorage = <<>>
  /\ second = setupWebSocketMonitoring(NoFilter)

(* The page's events and the operations of both handles.                   *)
PairNext ==
  \/ Tick
  \/ \E c \in Conns : PairWebSocketOpened(c)
  \/ \E c \in Conns, payload \in PairReceivedPayloads :
       PairFrameReceived(c, payload)
  \/ \E c \in Conns, payload \in SentPayloads : PairFrameSent(c, payload)
  \/ \E c \in Conns : PairWebSocketClosed(c)
  \/ \E timeout \in 1..MaxTimeout : WaitForConnectionCall(timeout)
  \/ WaitTimeout
  \/ WaitResume
  \/ \E timeout \in 1..MaxTimeout : SecondWaitForConnectionCall(timeout)
  \/ SecondWaitTimeout
  \/ SecondWaitResume
  \/ VerifyIntegrityCall

PairSpec == PairInit /\ [][PairNext]_vars

(* The latency step with room for a frame before the baseline, the sent    *)
(* command and a late reply.                                               *)
RoundTripInit == InitWith(TestSetups, MaxFrames + 2)

RoundTripSpec == RoundTripInit /\ [][WaitNext]_vars

TypeOK ==
  /\ tracker.connection \in Conns \cup {NullConn}
  /\ now \in 1..MaxTime
  /\ pc \in {"idle", "waiting", "resolved", "done", "timedout"}
  /\ rpc \in FreePositions \cup {"poll", "grace", "closureWait"}
  /\ tcResponseTime \in 0..MaxTime
  /\ attached \subseteq Opened
  /\ closed \subseteq Opened

(* ------------------------- auxiliary definitions ---------------------- *)
(* The URL of connection c is one the configured filter selects.          *)
UrlMatchesFilter(c) ==
  ~Truthy(urlFilter) \/ includes(UrlOf(c), urlFilter.text)

MatchingOpened == { c \in Opened : UrlMatchesFilter(c) }

(* The first connection, in opening order, that the filter selects.       *)
FirstMatching ==
  IF MatchingOpened = {} THEN NullConn
  ELSE order[Min({ i \in 1..Len(order) : UrlMatchesFilter(order[i]) })]

Payloads(log) == [i \in 1..Len(log) |-> log[i].payload]
Carried(raw) == [i \in 1..Len(raw) |-> payloadToString(raw[i])]

Times == 1..MaxTime
ThresholdArgs == { <<>>, <<1>> }

(* ------------------------------- claims ------------------------------- *)

(* C1: once the tracker is bound, a frame carried by any connection other *)
(* than the bound one is never appended to sentFrames or receivedFrames.  *)
C1_ForeignFramesIgnored ==
  [][ \A c \in Conns :
        (wire'[c] # wire[c] /\ tracker.connection # NullConn
           /\ c # tracker.connection)
        => (tracker'.sentFrames = tracker.sentFrames
            /\ tracker'.receivedFrames = tracker.receivedFrames) ]_vars

(* C2: whenever waitForConnection has returned a connection,              *)
(* verifyConnectivity reports success.                                    *)
C2_ResolvedThenConnectivity ==
  (pc = "done" /\ ret # NullConn) => verifyConnectivity(tracker).success

(* C3: once a close notification has recorded connectionClosedTime, no    *)
(* later step changes it.                                                 *)
C3_ClosedTimeSetOnce ==
  [][ tracker.isClosed
      => tracker'.connectionClosedTime = tracker.connectionClosedTime ]_vars

(* C4: isClosed and verifyClosure().success are true only when the bound  *)
(* connection itself has closed.                                          *)
C4_ClosedOnlyByBound ==
  (tracker.isClosed \/ verifyClosure(tracker).success)
    => (tracker.connection # NullConn /\ tracker.connection \in closed)

(* C5: the logs hold exactly the frames the tracked connection carried,   *)
(* per direction, in arrival order.                                       *)
C5_FifoRecording ==
  tracker.connection # NullConn
    => /\ Payloads(tracker.sentFrames) = Carried(wire[tracker.connection].sent)
       /\ Payloads(tracker.receivedFrames)
            = Carried(wire[tracker.connection].received)

(* C6: an open, frame or close event of a connection whose URL the filter *)
(* does not select leaves the tracker unchanged; the tracker is bound to  *)
(* the first selected connection and no handler is put on another one.    *)
C6_FilterSelectivity ==
  /\ [][ \A c \in Conns :
           (~UrlMatchesFilter(c)
              /\ (c \in Opened' \ Opened \/ wire'[c] # wire[c]
                    \/ c \in closed' \ closed))
           => tracker' = tracker ]_vars
  /\ [](tracker.connection = FirstMatching)
  /\ [](\A c \in attached : UrlMatchesFilter(c))

C6_Witness ==
  /\ Truthy(urlFilter)
  /\ order = <<2, 1>>
  /\ ~UrlMatchesFilter(2)
  /\ wire[2].received # <<>>
  /\ 2 \in closed
  /\ tracker.connection = 1
  /\ tracker.receivedFrames = <<>>

(* C7: a selected connection is never lost: the call is not left waiting  *)
(* (nor timed out) once a selected connection has opened, and what it     *)
(* returns is the bound connection.                                       *)
C7_NoLostConnection ==
  /\ pc = "waiting" => MatchingOpened = {}
  /\ pc = "resolved" => ws = tracker.connection
  /\ pc = "done" => (ret # NullConn /\ ret = tracker.connection)

(* C8: a pending waitForConnection ends with a timeout unless a selected  *)
(* connection opens, and a timeout with no selected connection leaves the *)
(* tracker unbound with empty logs.                                       *)
C8_WaitTimesOut ==
  /\ (pc = "waiting") ~> (pc = "timedout" \/ MatchingOpened # {})
  /\ []((pc = "timedout" /\ MatchingOpened = {})
          => /\ tracker.connection = NullConn
             /\ tracker.url = NullUrl
             /\ tracker.sentFrames = <<>>
             /\ tracker.receivedFrames = <<>>)

C8_Witness ==
  /\ pc = "timedout"
  /\ Opened # {}
  /\ MatchingOpened = {}
  /\ WireTotal > 0
  /\ tracker.connection = NullConn

(* C9: verifyConnectivity succeeds exactly when a connection is bound,    *)
(* its url is known and the established time is later than the start     *)
(* time; otherwise it fails with the "not established" reason.            *)
C9_ConnectivityIff ==
  LET r == verifyConnectivity(tracker)
  IN /\ r.success <=>
          (/\ tracker.connection # NullConn
           /\ tracker.url # NullUrl
           /\ tracker.connectionEstablishedTime > tracker.connectionStartTime)
     /\ r.success => r.failureReason = Undefined
     /\ ~r.success
          => r.failureReason = <<"WebSocket connection not established">>

C9_Witness ==
  /\ tracker.connection # NullConn
  /\ tracker.connectionStartTime # 0
  /\ tracker.connectionEstablishedTime > tracker.connectionStartTime
  /\ verifyConnectivity(tracker).success

(* C10: verifyPerformance succeeds exactly when the latency is below the  *)
(* threshold and the frame total exceeds the baseline.                    *)
C10_PerformanceIff ==
  \A k \in 0..MaxFrames, s \in Times, r \in Times, th \in ThresholdArgs :
    LET threshold == IF th = <<>> THEN WS_LATENCY_THRESHOLD_MS ELSE th[1]
    IN verifyPerformance(tracker, k, s, r, th).success
         <=> (r - s < threshold
              /\ Len(tracker.sentFrames) + Len(tracker.receivedFrames) > k)

C10_Witness ==
  LET total == Len(tracker.sentFrames) + Len(tracker.receivedFrames)
  IN /\ total > 0
     /\ verifyPerformance(tracker, total - 1, 1, 1, <<1>>).success
     /\ ~verifyPerformance(tracker, total, 1, 1, <<1>>).success
     /\ ~verifyPerformance(tracker, total - 1, 1, 2, <<1>>).success

(* The parts a verifyPerformance failureReason is made of.                 *)
HasLatencyPart(reason) == Len(reason) >= 1 /\ reason[1] = "Latency "
HasNoNewFramesPart(reason) ==
  Len(reason) >= 6 /\ reason[6] = "; No new frames detected"

(* C11: on failure the failureReason of verifyPerformance names exactly   *)
(* the sub-conditions that failed: the "Latency" part iff the latency is  *)
(* not below the threshold, the "No new frames detected" part iff no new  *)
(* frame appeared.                                                        *)
C11_ReasonNamesFailedParts ==
  \A k \in 0..MaxFrames, s \in Times, r \in Times, th \in ThresholdArgs :
    LET res == verifyPerformance(tracker, k, s, r, th)
        total == Len(tracker.sentFrames) + Len(tracker.receivedFrames)
    IN ~res.success
         => /\ HasLatencyPart(res.failureReason)
                 <=> res.latency >= res.threshold
            /\ HasNoNewFramesPart(res.failureReason) <=> ~(total > k)

(* C17: verifyIntegrity succeeds exactly when some received frame has a   *)
(* payload that parses as JSON or is non-empty text; no received frame    *)
(* gives success=false and validFrames=0; a single received frame of      *)
(* valid JSON gives success=true, validFrames=1, invalidFrames=0; the     *)
(* sent frames do not influence the result.                               *)
C17_IntegrityIff ==
  LET r == verifyIntegrity(tracker)
      rec == tracker.receivedFrames
      otherSent == { <<>>, <<[payload |-> "{}", timestamp |-> 1]>>,
                     <<[payload |-> "", timestamp |-> 1]>> }
  IN /\ r.success
          <=> \E i \in 1..Len(rec) :
                rec[i].payload \in JsonTexts \/ rec[i].payload # ""
     /\ rec = <<>> => (~r.success /\ r.validFrames = 0)
     /\ (Len(rec) = 1 /\ rec[1].payload \in JsonTexts)
          => (r.success /\ r.validFrames = 1 /\ r.invalidFrames = 0)
     /\ \A sent \in otherSent :
          verifyIntegrity([tracker EXCEPT !.sentFrames = sent]) = r

C17_Witness ==
  /\ Len(tracker.receivedFrames) = 1
  /\ tracker.receivedFrames[1].payload = "{}"
  /\ verifyIntegrity(tracker).success
  /\ verifyIntegrity(tracker).validFrames = 1

(* C18: each of the four queries carries a failureReason exactly when its *)
(* success is false.                                                      *)
C18_ReasonIffFailure ==
  /\ LET r == verifyConnectivity(tracker)
     IN (r.failureReason # Undefined) <=> ~r.success
  /\ \A k \in 0..MaxFrames, s \in Times, t \in Times, th \in ThresholdArgs :
       LET r == verifyPerformance(tracker, k, s, t, th)
       IN (r.failureReason # Undefined) <=> ~r.success
  /\ LET r == verifyIntegrity(tracker)
     IN (r.failureReason # Undefined) <=> ~r.success
  /\ LET r == verifyClosure(tracker)
     IN (r.failureReason # Undefined) <=> ~r.success

C18_Witness ==
  /\ verifyConnectivity(tracker).success
  /\ ~verifyIntegrity(tracker).success
  /\ Len(tracker.receivedFrames) = 1
  /\ verifyClosure(tracker).success
  /\ verifyClosure(tracker).failureReason = Undefined
  /\ verifyIntegrity(tracker).failureReason # Undefined

(* C16: verifyClosure reports success=false as long as the tracked        *)
(* connection has not closed; once it has closed, success is true and     *)
(* closureTime is the time of that close, never 0.                        *)
C16_ClosureBeforeAfter ==
  /\ [](~(tracker.connection # NullConn /\ tracker.connection \in closed)
          => ~verifyClosure(tracker).success)
  /\ []((tracker.connection # NullConn /\ tracker.connection \in closed)
          => /\ verifyClosure(tracker).success
             /\ verifyClosure(tracker).closureTime # 0)
  /\ [][ (tracker.connection # NullConn
            /\ tracker.connection \notin closed
            /\ tracker.connection \in closed')
         => verifyClosure(tracker').closureTime = now ]_vars
  /\ [][ (tracker.connection # NullConn /\ tracker.connection \in closed)
         => verifyClosure(tracker').closureTime
              = verifyClosure(tracker).closureTime ]_vars

(* C20: once the tracker is bound, no later step changes its connection   *)
(* or its url, and every waitForConnection that returns afterwards        *)
(* leaves them as they are.                                               *)
C20_BindingPermanent ==
  [][ tracker.connection # NullConn
      => /\ tracker'.connection = tracker.connection
         /\ tracker'.url = tracker.url
         /\ tracker'.url # NullUrl ]_vars

C20_Witness ==
  /\ Len(order) = 2
  /\ tracker.connection = order[1]
  /\ tracker.url = <<UrlOf(order[1])>>
  /\ order[2] \in attached
  /\ order[2] \in closed
  /\ WireTotal > 0
  /\ pc = "done"

(* C12: when waitForResponse has returned and exactly one received frame  *)
(* has been recorded since the baseline, at tcSendTime + d, then          *)
(* verifyPerformance reports latency d: success when d is below the       *)
(* threshold, and otherwise failure with a reason naming the latency and  *)
(* the threshold.                                                         *)
C12_LatencyRoundTrip ==
  (rpc = "returned" /\ Len(tracker.receivedFrames) = baselineReceived + 1)
    => LET d == tracker.receivedFrames[baselineReceived + 1].timestamp
                  - tcSendTime
       IN \A th \in ThresholdArgs :
            LET res == verifyPerformance(tracker, tcInitialFrameCount,
                                         tcSendTime, tcResponseTime, th)
            IN /\ res.latency = d
               /\ d < res.threshold => res.success
               /\ d >= res.threshold
                    => (~res.success
                        /\ res.failureReason
                             = <<"Latency ", d, "ms >= ", res.threshold, "ms">>)

C14_NoFabricatedFrame ==
  /\ [][ (rpc' # rpc /\ rpc \in {"sent", "poll", "grace"}
            /\ rpc' \in {"poll", "grace", "returned", "failed"})
         => tracker' = tracker ]_vars
  /\ [][ (tracker'.sentFrames # tracker.sentFrames
            \/ tracker'.receivedFrames # tracker.receivedFrames)
         => wire' # wire ]_vars

C14_Witness ==
  /\ rpc = "returned"
  /\ tracker.receivedFrames = <<>>
  /\ tracker.sentFrames # <<>>
  /\ tcResponseTime = now
  /\ tcResponseTime > tcSendTime

(* C15: a pending waitForResponse poll ends, with a Timeout failure       *)
(* unless the frame total exceeded the baseline, and a pending            *)
(* waitForClosure poll ends, with a Timeout failure unless the flag or    *)
(* the handle reported closed; neither returns normally otherwise.        *)
C15_BoundedWaits ==
  /\ (rpc = "poll") ~> (rpc \in {"failed", "grace"})
  /\ (rpc = "closureWait") ~> (rpc \in {"closureFailed", "closureReturned"})
  /\ [](rpc \in {"grace", "returned"}
          => getInitialFrameCount(tracker) > tcInitialFrameCount)
  /\ [](rpc = "closureReturned" => closureObserved(tracker))
  /\ [][ (rpc = "poll" /\ rpc' = "failed") => now >= pollDeadline ]_vars
  /\ [][ (rpc = "closureWait" /\ rpc' = "closureFailed")
         => now >= pollDeadline ]_vars

C15_Witness ==
  /\ rpc = "failed"
  /\ tracker.connection # NullConn
  /\ ~(getInitialFrameCount(tracker) > tcInitialFrameCount)
  /\ now > tcSendTime

(* C19: a verify* call changes no tracker field (nor anything else the    *)
(* monitor holds), and a call that follows a call of the same query with  *)
(* the same arguments, with no event in between, returns the same result. *)
C19_QueriesPure ==
  [][ result' # NoResult
      => /\ tracker' = tracker
         /\ pageVars' = pageVars
         /\ (result.query = result'.query /\ result.args = result'.args)
              => result'.value = result.value ]_vars

C19_Witness ==
  /\ result.query = "verifyPerformance"
  /\ result.args[4] = <<1>>
  /\ ~result.value.success
  /\ Len(tracker.receivedFrames) = 1

(* C21: connectionStartTime is set by the first waitForConnection call    *)
(* and never changes afterwards; connectionEstablishedTime is set when    *)
(* the tracker is bound and never changes afterwards.                     *)
C21_TimestampsWrittenOnce ==
  /\ [][ tracker.connectionStartTime # 0
         => tracker'.connectionStartTime = tracker.connectionStartTime ]_vars
  /\ [][ (pc \in {"idle", "done", "timedout"} /\ pc' \in {"waiting", "done"}
            /\ tracker.connectionStartTime = 0 /\ tracker' # tracker)
         => tracker'.connectionStartTime = now ]_vars
  /\ [][ tracker.connection # NullConn
         => tracker'.connectionEstablishedTime
              = tracker.connectionEstablishedTime ]_vars
  /\ [][ (tracker.connection = NullConn /\ tracker'.connection # NullConn)
         => tracker'.connectionEstablishedTime = now ]_vars
  /\ [](tracker.connection = NullConn
          => tracker.connectionEstablishedTime = 0)

C21_Witness ==
  /\ tracker.connectionStartTime = 1
  /\ tracker.connectionEstablishedTime = 1
  /\ now = 2
  /\ pc = "done"
  /\ Len(order) = 2
  /\ lastIndex = 0

(* C22: isClosed only moves from false to true.                           *)
C22_IsClosedMonotonic ==
  [][ tracker.isClosed => tracker'.isClosed ]_vars

C22_Witness ==
  /\ tracker.isClosed
  /\ closed = Conns
  /\ attached = Conns

(* C24: with no filter the first connection seen is bound; and for every  *)
(* URL the listener, the wait predicate and the already-bound fast path,  *)
(* asked one after the other, take the same match decision.               *)
C24_FilterDecisionsAgree ==
  /\ (~Truthy(urlFilter) /\ order # <<>>) => tracker.connection = order[1]
  /\ \A c \in Conns :
       LET l == ListenerFilter(urlFilter, lastIndex, UrlOf(c))
           p == PredicateFilter(urlFilter, l.lastIndex, UrlOf(c))
           q == FastPathFilter(urlFilter, p.lastIndex, UrlOf(c))
       IN l.matches = p.matches /\ p.matches = q.matches

(* C27: whenever waitForConnection has returned, the connection it        *)
(* returned is tracker.connection and its URL is tracker.url.             *)
C27_ReturnedIsBound ==
  pc = "done"
    => /\ ret # NullConn
       /\ ret = tracker.connection
       /\ tracker.url = <<UrlOf(ret)>>

(* C28: connection is non-null exactly when url is non-null; isClosed or  *)
(* a non-empty frame log implies a bound connection and a non-zero        *)
(* connectionEstablishedTime.                                             *)
C28_TrackerConsistency ==
  /\ (tracker.connection # NullConn) <=> (tracker.url # NullUrl)
  /\ (tracker.isClosed \/ tracker.sentFrames # <<>>
        \/ tracker.receivedFrames # <<>>)
       => (tracker.connection # NullConn
           /\ tracker.connectionEstablishedTime # 0)

C28_Witness ==
  /\ tracker.isClosed
  /\ tracker.receivedFrames # <<>>
  /\ tracker.connection # NullConn
  /\ tracker.connectionEstablishedTime # 0
  /\ tracker.connectionStartTime = 0

(* C29: validFrames + invalidFrames = totalFrames = the number of         *)
(* received frames; the invalid frames are exactly those whose payload is *)
(* the empty string; success is false exactly when every received frame   *)
(* is empty or there is none.                                             *)
C29_IntegrityPartition ==
  LET r == verifyIntegrity(tracker)
      rec == tracker.receivedFrames
      empty == { i \in 1..Len(rec) : rec[i].payload = "" }
  IN /\ r.validFrames + r.invalidFrames = r.totalFrames
     /\ r.totalFrames = Len(rec)
     /\ r.invalidFrames = Cardinality(empty)
     /\ ~r.success <=> empty = 1..Len(rec)

C29_Witness ==
  /\ Len(tracker.receivedFrames) = 1
  /\ tracker.receivedFrames[1].payload = "ok"
  /\ verifyIntegrity(tracker).validFrames = 1
  /\ verifyIntegrity(tracker).invalidFrames = 0

(* C25: verifyMinimumFrames succeeds exactly when sent + received minus   *)
(* the baseline reaches the minimum, returns that difference as           *)
(* totalNewFrames and carries a failureReason exactly on failure; on the  *)
(* counts of a tracker it succeeds with the default minimum of 2 whenever *)
(* two frames or more were recorded since the baseline.                   *)
C25_MinimumFrames ==
  LET sent == Len(tracker.sentFrames)
      received == Len(tracker.receivedFrames)
  IN \A initial \in 0..(frameBudget + 1), m \in { <<>>, <<0>>, <<1>>, <<3>> } :
       LET r == verifyMinimumFrames(initial, sent, received, m)
           minimum == IF m = <<>> THEN 2 ELSE m[1]
       IN /\ r.success <=> (sent + received - initial >= minimum)
          /\ r.totalNewFrames = sent + received - initial
          /\ (r.failureReason # Undefined) <=> ~r.success
          /\ (m = <<>> /\ sent + received - initial >= 2) => r.success

C25_Witness ==
  /\ Len(tracker.sentFrames) = 1
  /\ Len(tracker.receivedFrames) = 1
  /\ verifyMinimumFrames(0, 1, 1, <<>>).success
  /\ ~verifyMinimumFrames(1, 1, 1, <<>>).success

(* C26: waitForCloudflareChallenge always terminates. It returns true at  *)
(* once when its first check detects no challenge, returns true in the    *)
(* pass whose re-check finds the challenge gone, returns false only once  *)
(* maxWaitTime has elapsed with the last check still detecting the        *)
(* challenge, and never returns true after a last check that detected one.*)
C26_CloudflareWaitTerminates ==
  /\ [](cfReturned = <<TRUE>> => ~stillChallenging)
  /\ [][ /\ (cfpc \in {"idle", "returned"} /\ cfpc' = "loop")
            => isCloudflareChallenge(cfPage)
         /\ (cfpc \in {"idle", "returned"} /\ maxWaitTime' # maxWaitTime
               /\ ~isCloudflareChallenge(cfPage))
            => (cfpc' = "returned" /\ cfReturned' = <<TRUE>>)
         /\ (cfpc = "loop" /\ cfpc' # "loop" /\ now - startTime < maxWaitTime
               /\ ~isCloudflareChallenge(cfPage))
            => (cfpc' = "returned" /\ cfReturned' = <<TRUE>>)
         /\ (cfpc = "loop" /\ cfpc' # "loop" /\ now - startTime >= maxWaitTime)
            => (cfpc' = "returned" /\ cfReturned' = <<FALSE>>)
         /\ (cfpc # "returned" /\ cfpc' = "returned" /\ cfReturned' = <<FALSE>>)
            => (now - startTime >= maxWaitTime /\ stillChallenging) ]_vars
  /\ (cfpc \in {"loop", "sleeping"}) ~> (cfpc = "returned")

C26_Witness ==
  /\ cfpc = "returned"
  /\ cfReturned = <<FALSE>>
  /\ maxWaitTime = 1
  /\ now - startTime >= maxWaitTime
  /\ stillChallenging

(* C30: after any sequence of saveTestUser, markUserAsVerified and        *)
(* clearAllTestUsers the storage holds at most one entry per email;       *)
(* saving a stored email replaces that entry where it stands, with the    *)
(* given password and verified flag, and leaves the number, order and     *)
(* content of the other entries alone; markUserAsVerified on an email     *)
(* that is not stored changes nothing.                                    *)
C30_OneEntryPerEmail ==
  /\ [](\A i, j \in 1..Len(testUsersStorage) :
          testUsersStorage[i].email = testUsersStorage[j].email => i = j)
  /\ [][ LET stored == { i \in 1..Len(testUsersStorage) :
                           testUsersStorage[i].email = result'.args[1] }
         IN /\ (result'.query = "saveTestUser" /\ stored # {})
               => /\ Len(testUsersStorage') = Len(testUsersStorage)
                  /\ \A i \in 1..Len(testUsersStorage) :
                       IF i \in stored
                         THEN /\ testUsersStorage'[i].email = result'.args[1]
                              /\ testUsersStorage'[i].password = result'.args[2]
                              /\ testUsersStorage'[i].verified =
                                   (result'.args[4] = <<TRUE>>)
                         ELSE testUsersStorage'[i] = testUsersStorage[i]
            /\ (result'.query = "markUserAsVerified" /\ stored = {})
               => testUsersStorage' = testUsersStorage ]_vars

C30_Witness ==
  /\ Len(testUsersStorage) = 2
  /\ result.query = "saveTestUser"
  /\ result.args[1] = testUsersStorage[1].email
  /\ testUsersStorage[1].password = "newPassword"
  /\ testUsersStorage[1].verified
  /\ testUsersStorage[1].createdAt[2] > testUsersStorage[2].createdAt[2]
  /\ ~testUsersStorage[2].verified

(* An event on connection c happens in this step: it opens, carries a     *)
(* frame, or closes.                                                      *)
EventOn(c) ==
  \/ order' = Append(order, c)
  \/ wire'[c] # wire[c]
  \/ c \in closed' \ closed

====
